---- MODULE Spec2Model ----
(***************************************************************************)
(* Model of the QNX QSA audio backend, src/src/audio/qnx/SDL_qsa_audio.c.  *)
(*                                                                         *)
(* One SDL_AudioDevice is modelled: its fields, the private state block    *)
(* device->hidden, the native PCM handle and the two heap blocks owned by  *)
(* the state block.  The streaming thread's position inside                *)
(* QSA_PlayDevice is the variable pc; another thread may set               *)
(* device->shutdown between any two steps of QSA_PlayDevice.               *)
(*                                                                         *)
(* QSA_PlayDevice is modelled as the source text reads.  Line 122 is       *)
(*     while ((towrite > 0) && !SDL_GetAtomicInt(&device->shutdown));      *)
(* a loop whose body is the empty statement.  The statements of lines      *)
(* 123..164 follow that loop and run once; each `continue` in them is the  *)
(* last statement of its branch, so it passes control to the end of that   *)
(* block, which is followed by `return (towrite == 0)` on line 168.        *)
(***************************************************************************)
EXTENDS Integers, Sequences, FiniteSets, TLC

\* ------------------------------------------------------------------ bounds
\* Largest buflen handed to QSA_PlayDevice.
MaxLen == 2
\* Largest channel count of device->spec.
MaxChannels == 2
\* Ghost counters saturate here (loop-top checks, releases, close runs).
MaxCount == 3
\* Longest closest-format candidate list handed to QSA_OpenDevice.
MaxCands == 2
\* Largest period size (csetup.buf.block.frag_size) the hardware reports.
MaxFrag == 2
\* Largest number of cards snd_cards_list reports.
MaxCards == 2
\* The hardware ends the device list of a card at this device number at the latest.
MaxDevs == 2

\* ------------------------------------------------------- symbolic values
NULL == "NULL"
PTR == "PTR"

\* errno values read by QSA_PlayDevice.  On QNX EWOULDBLOCK is EAGAIN.
EAGAIN == "EAGAIN"
EWOULDBLOCK == EAGAIN
EINVAL == "EINVAL"
EIO == "EIO"
Errnos == {EAGAIN, EINVAL, EIO, "EBADF"}

\* cstatus.status values reported by snd_pcm_plugin_status.
SND_PCM_STATUS_UNDERRUN == "UNDERRUN"
SND_PCM_STATUS_READY == "READY"
ChannelStatuses == {SND_PCM_STATUS_UNDERRUN, SND_PCM_STATUS_READY, "RUNNING", "NOTREADY"}

\* Return values of the native calls: negative is failure.
NativeResults == {-1, 0}
\* Return values of SDL_IOReady: -1 error, 0 timeout, 1 ready.
IOReadyResults == {-1, 0, 1}

\* Generic (SDL) sample formats; "OTHER" stands for any format outside the table,
\* SDL_AUDIO_UNKNOWN is the 0 that terminates a candidate list.
SDL_AUDIO_UNKNOWN == "UNKNOWN"
TableFormats == <<"U8", "S8", "S16LSB", "S16MSB", "S32LSB", "S32MSB", "F32LSB", "F32MSB">>
GenericFormats == {TableFormats[i] : i \in 1..Len(TableFormats)} \cup {"OTHER"}
\* The formats the device spec and the candidate lists are drawn from.
HostFormats == {"U8", "F32MSB", "OTHER"}
NoNative == "none"
\* Content of an output buffer that does not exist or was never filled.
NoFill == "nofill"

\* Native (QSA) sample formats of the format table, in the order of the table, and
\* the formats the hardware may report in a channel setup: "A_LAW" stands for
\* any native format outside the table.
TableNative == <<"U8", "S8", "S16_LE", "S16_BE", "S32_LE", "S32_BE", "FLOAT_LE", "FLOAT_BE">>
HardwareFormats == {TableNative[i] : i \in 1..Len(TableNative)} \cup {"A_LAW"}

\* Status values of the native calls of QSA_DetectDevices.
EOK == "EOK"
ENOENT == "ENOENT"
OpenStatuses == {EOK, ENOENT, "EBUSY"}
CloseStatuses == {EOK, EIO}

\* Card numbers the hardware may list, and device numbers it may name as a
\* preferred endpoint.
CardIds == {0, 1, 65535}
PrefDevs == {0, 1, 65535}
NoCard == -1

\* ------------------------------------------------------- 32-bit values
\* A Uint32 is kept as its two 16-bit halves.
Half == 65536
RECURSIVE BitOr(_, _)
BitOr(a, b) ==
    IF a = 0 THEN b
    ELSE IF b = 0 THEN a
    ELSE (IF a % 2 = 1 \/ b % 2 = 1 THEN 1 ELSE 0) + 2 * BitOr(a \div 2, b \div 2)
\* (Uint32) n for n >= 0
ToUint32(n) == [hi |-> (n \div Half) % Half, lo |-> n % Half]
\* v << 16, v >> 16, v | w, v & 0xFFFF
Shl16(v) == [hi |-> v.lo, lo |-> 0]
Shr16(v) == [hi |-> 0, lo |-> v.hi]
Or32(v, w) == [hi |-> BitOr(v.hi, w.hi), lo |-> BitOr(v.lo, w.lo)]
And16(v) == [hi |-> 0, lo |-> v.lo]
\* The handle of no device: what SDL_FindPhysicalAudioDeviceByHandle returns when
\* no device was added with the handle, and a handle not built yet.
NoHandle == [hi |-> NoCard, lo |-> NoCard]
\* No device has been added by the last step.
NoReport == [sdlhandle |-> NoHandle, native |-> NoNative, format |-> NULL]

VARIABLES
    \* SDL_AudioDevice fields
    recording, shutdown, hidden, spec_format, channels,
    \* struct SDL_PrivateAudioData fields (meaningful while hidden # NULL)
    audio_handle, pcm_buf, audio_fd, timeout_on_wait,
    \* native and heap resources
    nativeOpen, bufLive, stateLive,
    \* streaming thread: position and locals of QSA_PlayDevice
    pc, buflen, towrite, bufoff, bw, errno, ret,
    \* history of the current / last call
    op, entrySd, branch, nwrites, accepted, nsleep, nstatus, nprepare, writesAfterPrepare,
    topSaw, topChecks, shortWrite,
    \* history of QSA_WaitDevice
    waitResult, flagBefore, lastOkWait,
    \* history of the device life
    opened, openStep, cparams_format, handleReleases, bufFrees, stateFrees, closeRun,
    \* history of the last QSA_OpenDevice call: the candidate list it was given, the
    \* steps it attempted, the size it allocated, the byte it filled the buffer with,
    \* and device->sample_frames and device->buffer_size as it left them (no later
    \* step modelled here reads them, so they are forgotten with the rest)
    closefmts, callLog, allocSize, bufFill, sample_frames, buffer_size,
    \* QSA_DetectDevices: byte order of the build, position, whether the hardware
    \* reported zero cards to the first and to the second snd_cards_list call, and
    \* the locals
    bigendian, dpc, countedZero, listedZero, num_cards, cards, it, card, deviceno, closeStatus,
    csetup_format, pspec_format, cardno, prefDeviceno, sdlhandle,
    \* native handles enumeration holds open, whether it has called a native open
    \* function, the devices given to SDL_AddAudioDevice, the last of them, and the
    \* two results
    openHandles, anyOpen, added, lastAdded, default_playback, default_recording

devVars == <<recording, shutdown, hidden, spec_format, channels>>
hidVars == <<audio_handle, pcm_buf, audio_fd, timeout_on_wait>>
resVars == <<nativeOpen, bufLive, stateLive>>
playVars == <<pc, buflen, towrite, bufoff, bw, errno>>
callVars == <<branch, nwrites, accepted, nsleep, nstatus, nprepare, writesAfterPrepare,
              topSaw, topChecks, shortWrite>>
waitVars == <<waitResult, flagBefore, lastOkWait>>
lifeKept == <<opened, openStep, cparams_format, handleReleases, bufFrees, stateFrees>>
lifeVars == <<lifeKept, closefmts, callLog, allocSize, bufFill, sample_frames, buffer_size>>
qsaVars == <<devVars, hidVars, resVars, playVars, callVars, waitVars, lifeVars, ret, op, entrySd, closeRun>>
loopVars == <<num_cards, cards, it, card, deviceno>>
probeVars == <<closeStatus, csetup_format, pspec_format>>
prefVars == <<cardno, prefDeviceno, sdlhandle, default_playback, default_recording>>
detVars == <<bigendian, dpc, countedZero, listedZero, loopVars, probeVars, prefVars,
             openHandles, anyOpen, added, lastAdded>>
vars == <<qsaVars, detVars>>

Sat(n) == IF n < MaxCount THEN n + 1 ELSE n

\* The streaming thread is between calls.
Idle == pc \in {"idle", "ret"}

\* Call history reset at the entry of QSA_PlayDevice.
ResetCall ==
    /\ nwrites' = 0
    /\ accepted' = 0
    /\ nsleep' = 0
    /\ nstatus' = 0
    /\ nprepare' = 0
    /\ writesAfterPrepare' = 0
    /\ topSaw' = FALSE
    /\ topChecks' = 0
    /\ shortWrite' = FALSE

\* The locals of a QSA_OpenDevice call are gone once the next call starts.
ResetOpen ==
    /\ closefmts' = <<>>
    /\ callLog' = <<>>
    /\ allocSize' = 0
    /\ bufFill' = NoFill
    /\ sample_frames' = 0
    /\ buffer_size' = 0

\* Between calls of QSA_PlayDevice its locals do not exist.
ResetPlay ==
    /\ ResetCall
    /\ branch' = "none"
    /\ buflen' = 0
    /\ towrite' = 0
    /\ bufoff' = 0
    /\ bw' = 0
    /\ errno' = EINVAL

\* QSA_DetectDevices has not been entered.
InitDetect ==
    /\ dpc = "start"
    /\ countedZero = FALSE
    /\ listedZero = FALSE
    /\ num_cards = 0
    /\ cards = <<>>
    /\ it = 0
    /\ card = NoCard
    /\ deviceno = 0
    /\ closeStatus = EOK
    /\ csetup_format = NoNative
    /\ pspec_format = NULL
    /\ cardno = NoCard
    /\ prefDeviceno = NoCard
    /\ sdlhandle = NoHandle
    /\ openHandles = 0
    /\ anyOpen = FALSE
    /\ added = {}
    /\ lastAdded = NoReport
    /\ default_playback = NoHandle
    /\ default_recording = NoHandle

InitDevice ==
    /\ recording \in BOOLEAN
    /\ shutdown = FALSE
    /\ hidden = NULL
    /\ spec_format \in HostFormats
    /\ channels \in 1..MaxChannels
    /\ sample_frames = 0
    /\ buffer_size = 0
    /\ audio_handle = NULL
    /\ pcm_buf = NULL
    /\ audio_fd = 0
    /\ timeout_on_wait = FALSE
    /\ nativeOpen = FALSE
    /\ bufLive = FALSE
    /\ stateLive = FALSE
    /\ pc = "idle"
    /\ buflen = 0
    /\ towrite = 0
    /\ bufoff = 0
    /\ bw = 0
    /\ errno = EINVAL
    /\ ret = TRUE
    /\ op = "none"
    /\ entrySd = FALSE
    /\ branch = "none"
    /\ nwrites = 0
    /\ accepted = 0
    /\ nsleep = 0
    /\ nstatus = 0
    /\ nprepare = 0
    /\ writesAfterPrepare = 0
    /\ topSaw = FALSE
    /\ topChecks = 0
    /\ shortWrite = FALSE
    /\ waitResult = 1
    /\ flagBefore = FALSE
    /\ lastOkWait = "none"
    /\ opened = FALSE
    /\ openStep = "none"
    /\ cparams_format = NoNative
    /\ handleReleases = 0
    /\ bufFrees = 0
    /\ stateFrees = 0
    /\ closeRun = 0
    /\ closefmts = <<>>
    /\ callLog = <<>>
    /\ allocSize = 0
    /\ bufFill = NoFill

\* One device, before its first open; the build is little-endian.
Init ==
    /\ InitDevice
    /\ InitDetect
    /\ bigendian = FALSE


\* --------------------------------------------------------- format table
\* The switch of QSA_OpenDevice: the native format of a generic format, NoNative
\* for the default label.
NativeOf(g) ==
    CASE g = "U8" -> "U8"
      [] g = "S8" -> "S8"
      [] g = "S16LSB" -> "S16_LE"
      [] g = "S16MSB" -> "S16_BE"
      [] g = "S32LSB" -> "S32_LE"
      [] g = "S32MSB" -> "S32_BE"
      [] g = "F32LSB" -> "FLOAT_LE"
      [] g = "F32MSB" -> "FLOAT_BE"
      [] OTHER -> NoNative

\* cparams.format.format as QSA_InitAudioParams leaves it.
DefaultNativeFormat == "S16_LE"

\* Mutant of Negotiate: the loop does not stop at the first candidate that maps
\* and ends with the last one that does.
Negotiate_Last(cands) ==
    IF \E i \in 1..Len(cands) : NativeOf(cands[i]) # NoNative
    THEN LET k == CHOOSE i \in 1..Len(cands) :
                    /\ NativeOf(cands[i]) # NoNative
                    /\ \A j \in (i + 1)..Len(cands) : NativeOf(cands[j]) = NoNative
         IN [test_format |-> cands[k], native |-> NativeOf(cands[k])]
    ELSE [test_format |-> SDL_AUDIO_UNKNOWN, native |-> DefaultNativeFormat]

\* The candidate loop of QSA_OpenDevice over closefmts (the sequence without its
\* 0 terminator): test_format is SDL_AUDIO_UNKNOWN when the list is exhausted.
RECURSIVE Negotiate(_)
Negotiate(cands) ==
    IF cands = <<>>
    THEN [test_format |-> SDL_AUDIO_UNKNOWN, native |-> DefaultNativeFormat]
    ELSE IF NativeOf(Head(cands)) # NoNative
         THEN [test_format |-> Head(cands), native |-> NativeOf(Head(cands))]
         ELSE Negotiate(Tail(cands))

CandLists == UNION {[1..n -> HostFormats] : n \in 0..MaxCands}

\* ---------------------------------------------------------------- open
\* The points at which QSA_OpenDevice can return failure, in program order.
OpenSteps == <<"calloc", "snd_pcm_open", "format", "params", "setup", "malloc", "fd", "prepare", "none">>
StepNo(s) == CHOOSE i \in 1..Len(OpenSteps) : OpenSteps[i] = s
\* Mutant of Passed: the failing step counts as completed.
Passed_Off(s, fail) == StepNo(fail) >= StepNo(s)

\* Step s completed successfully in a run of open that fails at step fail.
Passed(s, fail) == StepNo(fail) > StepNo(s)

\* The failures of open that are reported as configuration errors while the
\* native handle is in the state block: no mappable format (line 246), parameters
\* rejected (line 260), setup read failed (line 268), buffer allocation failed
\* (line 278).
ConfigurationErrorSteps == {"format", "params", "setup", "malloc"}

\* Mutant of FdInvalid: the descriptor is not looked at.
FdInvalid_Never(fd) == FALSE

\* Line 284: the descriptor the native layer reports is not valid.
FdInvalid(fd) == fd < 0

\* SDL_UpdatedAudioDeviceFormat (host): the size in bytes of one period of frames
\* sample frames, and the silence byte of a format.
BytesPerSample(g) ==
    CASE g \in {"U8", "S8"} -> 1
      [] g \in {"S16LSB", "S16MSB"} -> 2
      [] OTHER -> 4
HostBufferSize(g, ch, frames) == frames * ch * BytesPerSample(g)
HostSilenceValue(g) == IF g = "U8" THEN 128 ELSE 0

\* Mutant of OpenRecording: the state block is allocated before the direction
\* of the device is looked at.
OpenRecording_AllocatesFirst ==
    /\ recording
    /\ ret' = FALSE
    /\ hidden' = PTR
    /\ stateLive' = TRUE
    /\ UNCHANGED <<recording, shutdown, spec_format, channels, hidVars, nativeOpen, bufLive,
                   lifeVars, waitVars>>

\* QSA_OpenDevice on a recording device: rejected before anything is touched.
OpenRecording ==
    /\ recording
    /\ ret' = FALSE
    /\ UNCHANGED <<devVars, hidVars, resVars, lifeVars, waitVars>>

\* QSA_OpenDevice on a playback device (the statement on line 289 is read with
\* the terminating ';' it lacks); fail is the first step that fails
\* ("none": every native call and allocation succeeds), cands the list
\* SDL_ClosestAudioFormats returns, fd the descriptor the native layer reports.
OpenPlayback(fail, cands, fd, frag) ==
    /\ ~recording
    /\ (fail = "format") => Negotiate(cands).test_format = SDL_AUDIO_UNKNOWN
    /\ Passed("format", fail) => Negotiate(cands).test_format # SDL_AUDIO_UNKNOWN
    /\ (fail = "fd") <=> (Passed("malloc", fail) /\ FdInvalid(fd))
    /\ closefmts' = IF Passed("snd_pcm_open", fail) THEN cands ELSE <<>>
    /\ callLog' = SubSeq(OpenSteps, 1, IF fail = "none" THEN Len(OpenSteps) - 1 ELSE StepNo(fail))
    /\ sample_frames' = IF Passed("setup", fail) THEN frag ELSE 0
    /\ buffer_size' = IF Passed("setup", fail)
                      THEN HostBufferSize(Negotiate(cands).test_format, channels, frag)
                      ELSE 0
    /\ allocSize' = IF Passed("malloc", fail)
                    THEN HostBufferSize(Negotiate(cands).test_format, channels, frag)
                    ELSE 0
    /\ bufFill' = IF Passed("malloc", fail)
                  THEN HostSilenceValue(Negotiate(cands).test_format)
                  ELSE NoFill
    /\ hidden' = IF Passed("calloc", fail) THEN PTR ELSE NULL
    /\ stateLive' = Passed("calloc", fail)
    /\ audio_handle' = IF Passed("snd_pcm_open", fail) THEN PTR ELSE NULL
    /\ nativeOpen' = Passed("snd_pcm_open", fail)
    /\ spec_format' = IF Passed("format", fail) THEN Negotiate(cands).test_format ELSE spec_format
    /\ cparams_format' = IF Passed("format", fail) THEN Negotiate(cands).native ELSE NoNative
    /\ pcm_buf' = IF Passed("malloc", fail) THEN PTR ELSE NULL
    /\ bufLive' = Passed("malloc", fail)
    /\ audio_fd' = IF Passed("malloc", fail) THEN fd ELSE 0
    /\ timeout_on_wait' = FALSE
    /\ ret' = (fail = "none")
    /\ opened' = (fail = "none")
    /\ openStep' = fail
    /\ handleReleases' = 0
    /\ bufFrees' = 0
    /\ stateFrees' = 0
    /\ waitResult' = 1
    /\ flagBefore' = FALSE
    /\ lastOkWait' = "none"
    /\ UNCHANGED <<recording, shutdown, channels>>

OpenDevice ==
    /\ Idle
    /\ hidden = NULL
    /\ \/ OpenRecording
       \/ \E fail \in {OpenSteps[i] : i \in 1..Len(OpenSteps)} :
            \* an input is drawn only when the run of open gets to read it
            \E cands \in IF Passed("snd_pcm_open", fail) THEN CandLists ELSE {<<>>},
               frag \in IF Passed("setup", fail) THEN 1..MaxFrag ELSE {1},
               fd \in IF Passed("malloc", fail) THEN {-1, 3} ELSE {3} :
                OpenPlayback(fail, cands, fd, frag)
    /\ op' = "open"
    /\ entrySd' = FALSE
    /\ closeRun' = 0
    /\ pc' = "idle"
    /\ ResetPlay
    /\ UNCHANGED detVars

\* --------------------------------------------------------------- close
\* Mutant of CloseDevice: device->hidden is not set to NULL after the free.
CloseDevice_KeepsHidden ==
    /\ Idle
    /\ IF hidden # NULL
       THEN /\ IF audio_handle # NULL
               THEN nativeOpen' = FALSE /\ handleReleases' = Sat(handleReleases)
               ELSE UNCHANGED <<nativeOpen, handleReleases>>
            /\ IF pcm_buf # NULL
               THEN bufLive' = FALSE /\ bufFrees' = Sat(bufFrees)
               ELSE UNCHANGED <<bufLive, bufFrees>>
            /\ stateLive' = FALSE
            /\ stateFrees' = Sat(stateFrees)
       ELSE UNCHANGED <<nativeOpen, handleReleases, bufLive, bufFrees, stateLive, stateFrees>>
    /\ opened' = FALSE
    /\ openStep' = "none"
    /\ cparams_format' = NoNative
    /\ waitResult' = 1
    /\ flagBefore' = FALSE
    /\ lastOkWait' = "none"
    /\ ResetOpen
    /\ op' = "close"
    /\ entrySd' = FALSE
    /\ closeRun' = Sat(closeRun)
    /\ pc' = "idle"
    /\ ResetPlay
    /\ UNCHANGED <<recording, shutdown, spec_format, channels, ret, hidden, hidVars>>
    /\ UNCHANGED detVars

\* Mutant of CloseDevice: the output buffer is not freed with the state block.
CloseDevice_LeaksBuffer ==
    /\ Idle
    /\ IF hidden # NULL
       THEN /\ IF audio_handle # NULL
               THEN nativeOpen' = FALSE /\ handleReleases' = Sat(handleReleases)
               ELSE UNCHANGED <<nativeOpen, handleReleases>>
            /\ UNCHANGED <<bufLive, bufFrees>>
            /\ stateLive' = FALSE
            /\ stateFrees' = Sat(stateFrees)
            /\ hidden' = NULL
            /\ audio_handle' = NULL
            /\ pcm_buf' = NULL
            /\ audio_fd' = 0
            /\ timeout_on_wait' = FALSE
       ELSE UNCHANGED <<nativeOpen, handleReleases, bufLive, bufFrees, stateLive, stateFrees,
                        hidden, hidVars>>
    /\ opened' = FALSE
    /\ openStep' = "none"
    /\ cparams_format' = NoNative
    /\ waitResult' = 1
    /\ flagBefore' = FALSE
    /\ lastOkWait' = "none"
    /\ ResetOpen
    /\ op' = "close"
    /\ entrySd' = FALSE
    /\ closeRun' = Sat(closeRun)
    /\ pc' = "idle"
    /\ ResetPlay
    /\ UNCHANGED <<recording, shutdown, spec_format, channels, ret>>
    /\ UNCHANGED detVars

\* QSA_CloseDevice, called by the host while the streaming thread is not inside
\* a call.  free(NULL) releases nothing; the fields of a freed state block are
\* gone.  The flush before snd_pcm_close (QNX before 7.1) changes none of the
\* state modelled here.
CloseDevice ==
    /\ Idle
    /\ IF hidden # NULL
       THEN /\ IF audio_handle # NULL
               THEN nativeOpen' = FALSE /\ handleReleases' = Sat(handleReleases)
               ELSE UNCHANGED <<nativeOpen, handleReleases>>
            /\ IF pcm_buf # NULL
               THEN bufLive' = FALSE /\ bufFrees' = Sat(bufFrees)
               ELSE UNCHANGED <<bufLive, bufFrees>>
            /\ stateLive' = FALSE
            /\ stateFrees' = Sat(stateFrees)
            /\ hidden' = NULL
            /\ audio_handle' = NULL
            /\ pcm_buf' = NULL
            /\ audio_fd' = 0
            /\ timeout_on_wait' = FALSE
       ELSE UNCHANGED <<nativeOpen, handleReleases, bufLive, bufFrees, stateLive, stateFrees,
                        hidden, hidVars>>
    /\ opened' = FALSE
    /\ openStep' = "none"
    /\ cparams_format' = NoNative
    /\ waitResult' = 1
    /\ flagBefore' = FALSE
    /\ lastOkWait' = "none"
    /\ ResetOpen
    /\ op' = "close"
    /\ entrySd' = FALSE
    /\ closeRun' = Sat(closeRun)
    /\ pc' = "idle"
    /\ ResetPlay
    /\ UNCHANGED <<recording, shutdown, spec_format, channels, ret>>
    /\ UNCHANGED detVars

\* ---------------------------------------------------------------- wait
\* Mutant of WaitOutcome: the timeout case does not set the flag.
WaitOutcome_TimeoutKeepsFlag(result, flag) ==
    CASE result = -1 -> [ret |-> FALSE, flag |-> flag]
      [] result = 0 -> [ret |-> TRUE, flag |-> flag]
      [] OTHER -> [ret |-> TRUE, flag |-> FALSE]

\* The switch of QSA_WaitDevice on the result of SDL_IOReady.
WaitOutcome(result, flag) ==
    CASE result = -1 -> [ret |-> FALSE, flag |-> flag]
      [] result = 0 -> [ret |-> TRUE, flag |-> TRUE]
      [] OTHER -> [ret |-> TRUE, flag |-> FALSE]

\* QSA_WaitDevice, called by the streaming thread of an open device.
WaitDevice ==
    /\ Idle
    /\ opened
    /\ \E result \in IOReadyResults :
        /\ waitResult' = result
        /\ flagBefore' = timeout_on_wait
        /\ timeout_on_wait' = WaitOutcome(result, timeout_on_wait).flag
        /\ ret' = WaitOutcome(result, timeout_on_wait).ret
        /\ lastOkWait' = IF result = -1 THEN lastOkWait
                         ELSE IF result = 0 THEN "timeout" ELSE "ready"
    /\ op' = "wait"
    /\ entrySd' = FALSE
    /\ closeRun' = 0
    /\ pc' = "idle"
    /\ ResetPlay
    /\ ResetOpen
    /\ UNCHANGED <<devVars, audio_handle, pcm_buf, audio_fd, resVars, lifeKept>>
    /\ UNCHANGED detVars


\* ---------------------------------------------------------------- play
\* Mutant of PlayEarlyOut: the shutdown test is missing.
PlayEarlyOut_IgnoresShutdown == hidden = NULL

\* Line 115: the early return of QSA_PlayDevice.
PlayEarlyOut == shutdown \/ hidden = NULL

\* Line 122: the condition of the while statement.
LoopCond(tw, sd) == (tw > 0) /\ ~sd

\* Mutant of StalledShortCircuit: the flag is tested the wrong way round.
StalledShortCircuit_InvertedFlag(e, b, flag) == (e = EAGAIN) /\ (b = 0) /\ ~flag

\* Lines 126-127: the stalled-device test.
StalledShortCircuit(e, b, flag) == (e = EAGAIN) /\ (b = 0) /\ flag

\* Mutant of ErrClass: the final else is missing, an unknown error is handled as
\* a hardware fault.
ErrClass_NoFatal(e) ==
    IF (e = EAGAIN) \/ (e = EWOULDBLOCK) THEN "again" ELSE "fault"

\* Lines 133, 140, 157: the classification of errno after a short write.
ErrClass(e) ==
    IF (e = EAGAIN) \/ (e = EWOULDBLOCK) THEN "again"
    ELSE IF (e = EINVAL) \/ (e = EIO) THEN "fault"
    ELSE "fatal"

\* Line 146: the status query failed.
StatusFailed(status) == status < 0

\* Line 149: the channel states that are re-prepared.
NeedsPrepare(cst) == (cst = SND_PCM_STATUS_UNDERRUN) \/ (cst = SND_PCM_STATUS_READY)

\* Mutant of TailResult: the comparison is >= instead of ==.
TailResult_NonNegative(tw) == (tw >= 0)

\* Line 168: the value returned after the block.
TailResult(tw) == (tw = 0)

\* Mutant of EntryRemaining: the count starts one byte short.
EntryRemaining_OneShort(len) == len - 1

\* Line 119: int towrite = buflen.
EntryRemaining(len) == len

\* Entry of QSA_PlayDevice(device, buffer, len), lines 113-119.  The host calls
\* it on an open device, or on one whose state block is gone, with the size of
\* the device buffer, len > 0.
PlayDevice(len) ==
    /\ Idle
    /\ opened \/ hidden = NULL
    /\ ResetCall
    /\ op' = "play"
    /\ entrySd' = shutdown
    /\ closeRun' = 0
    /\ buflen' = len
    /\ bufoff' = 0
    /\ bw' = 0
    /\ errno' = EINVAL
    /\ IF PlayEarlyOut
       THEN /\ pc' = "ret"
            /\ ret' = TRUE
            /\ branch' = "early"
            /\ towrite' = 0
       ELSE /\ pc' = "top"
            /\ towrite' = EntryRemaining(len)
            /\ branch' = "none"
            /\ UNCHANGED ret
    /\ ResetOpen
    /\ UNCHANGED <<devVars, hidVars, resVars, lifeKept, waitVars>>
    /\ UNCHANGED detVars

\* Line 122: one evaluation of the loop condition.  The loop body is the empty
\* statement, so a true condition leads back to the condition.
PlayTop ==
    /\ pc = "top"
    /\ topSaw' = shutdown
    /\ topChecks' = Sat(topChecks)
    /\ pc' = IF LoopCond(towrite, shutdown) THEN "top" ELSE "write"
    /\ UNCHANGED <<devVars, hidVars, resVars, lifeVars, waitVars, ret, op, entrySd, closeRun,
                   buflen, towrite, bufoff, bw, errno,
                   branch, nwrites, accepted, nsleep, nstatus, nprepare, writesAfterPrepare,
                   shortWrite>>
    /\ UNCHANGED detVars

\* Line 123: snd_pcm_plugin_write of the remaining towrite bytes; the native
\* layer reports b bytes (negative: none) and leaves e in errno.
PlayWrite ==
    /\ pc = "write"
    /\ \E b \in -1..towrite, e \in Errnos :
        /\ bw' = b
        /\ errno' = e
        /\ accepted' = accepted + (IF b > 0 THEN b ELSE 0)
        /\ shortWrite' = (shortWrite \/ b # towrite)
    /\ nwrites' = Sat(nwrites)
    /\ writesAfterPrepare' = IF nprepare > 0 THEN Sat(writesAfterPrepare) ELSE writesAfterPrepare
    /\ pc' = "check"
    /\ UNCHANGED <<devVars, hidVars, resVars, lifeVars, waitVars, ret, op, entrySd, closeRun,
                   buflen, towrite, bufoff, branch, nsleep, nstatus, nprepare, topSaw, topChecks>>
    /\ UNCHANGED detVars

\* Lines 140-156: the hardware-fault branch.  status and cst are what
\* snd_pcm_plugin_status reports, pst what snd_pcm_plugin_prepare returns.
PlayFault(status, cst, pst) ==
    /\ nstatus' = Sat(nstatus)
    /\ UNCHANGED <<towrite, bufoff, nsleep>>
    /\ IF StatusFailed(status)
       THEN /\ branch' = "statusfail"
            /\ pc' = "ret"
            /\ ret' = FALSE
            /\ UNCHANGED <<nprepare, writesAfterPrepare>>
       ELSE IF NeedsPrepare(cst)
            THEN /\ nprepare' = Sat(nprepare)
                 /\ writesAfterPrepare' = 0
                 /\ IF pst < 0
                    THEN branch' = "preparefail" /\ pc' = "ret" /\ ret' = FALSE
                    ELSE branch' = "recovered" /\ pc' = "tail" /\ UNCHANGED ret
            ELSE /\ branch' = "otherstatus"
                 /\ pc' = "tail"
                 /\ UNCHANGED <<ret, nprepare, writesAfterPrepare>>

\* Lines 124-164: what follows the native write.
PlayCheck ==
    /\ pc = "check"
    /\ IF bw # towrite
       THEN IF StalledShortCircuit(errno, bw, timeout_on_wait)
            THEN /\ branch' = "stalled"
                 /\ pc' = "ret"
                 /\ ret' = TRUE
                 /\ UNCHANGED <<towrite, bufoff, nsleep, nstatus, nprepare, writesAfterPrepare>>
            ELSE CASE ErrClass(errno) = "again" ->
                        /\ nsleep' = Sat(nsleep)
                        /\ towrite' = towrite - bw
                        /\ bufoff' = bufoff + bw * channels
                        /\ branch' = "again"
                        /\ pc' = "tail"
                        /\ UNCHANGED <<ret, nstatus, nprepare, writesAfterPrepare>>
                   [] ErrClass(errno) = "fault" ->
                        \E status \in NativeResults, cst \in ChannelStatuses, pst \in NativeResults :
                            PlayFault(status, cst, pst)
                   [] OTHER ->
                        /\ branch' = "fatal"
                        /\ pc' = "ret"
                        /\ ret' = FALSE
                        /\ UNCHANGED <<towrite, bufoff, nsleep, nstatus, nprepare, writesAfterPrepare>>
       ELSE /\ towrite' = towrite - bw
            /\ bufoff' = bufoff + bw * channels
            /\ branch' = "full"
            /\ pc' = "tail"
            /\ UNCHANGED <<ret, nsleep, nstatus, nprepare, writesAfterPrepare>>
    /\ UNCHANGED <<devVars, hidVars, resVars, lifeVars, waitVars, op, entrySd, closeRun,
                   buflen, bw, errno, nwrites, accepted, topSaw, topChecks, shortWrite>>
    /\ UNCHANGED detVars

\* Lines 167-168: return (towrite == 0).
PlayTail ==
    /\ pc = "tail"
    /\ ret' = TailResult(towrite)
    /\ pc' = "ret"
    /\ UNCHANGED <<devVars, hidVars, resVars, lifeVars, waitVars, op, entrySd, closeRun,
                   buflen, towrite, bufoff, bw, errno, callVars>>
    /\ UNCHANGED detVars

\* ------------------------------------------------------------ the host
\* Another thread sets device->shutdown.
RequestShutdown ==
    /\ ~shutdown
    /\ shutdown' = TRUE
    /\ UNCHANGED <<recording, hidden, spec_format, channels, hidVars, resVars, playVars,
                   callVars, waitVars, lifeVars, ret, op, entrySd, closeRun>>
    /\ UNCHANGED detVars

\* The host clears device->shutdown between two lives of the device.
ClearShutdown ==
    /\ shutdown
    /\ Idle
    /\ hidden = NULL
    /\ shutdown' = FALSE
    /\ UNCHANGED <<recording, hidden, spec_format, channels, hidVars, resVars, playVars,
                   callVars, waitVars, lifeVars, ret, op, entrySd, closeRun>>
    /\ UNCHANGED detVars

\* The steps of the streaming thread inside QSA_PlayDevice.
PlayStep == PlayTop \/ PlayWrite \/ PlayCheck \/ PlayTail

Next ==
    \/ OpenDevice
    \/ CloseDevice
    \/ WaitDevice
    \/ \E len \in 1..MaxLen : PlayDevice(len)
    \/ PlayTop
    \/ PlayWrite
    \/ PlayCheck
    \/ PlayTail
    \/ RequestShutdown
    \/ ClearShutdown

Spec == Init /\ [][Next]_vars

\* The streaming thread is a running OS thread: a step of QSA_PlayDevice that can
\* be taken is eventually taken.  Nothing obliges the host to request shutdown.
FairSpec == Spec /\ WF_vars(PlayStep)

\* =========================================================== enumeration
\* QnxFormatToSDLFormat: the generic format of a native format.  SDL_AUDIO_S16,
\* returned for the default label, is the 16-bit format in the byte order of the
\* build.
SDL_AUDIO_S16 == IF bigendian THEN "S16MSB" ELSE "S16LSB"

\* Mutant of QnxFormatToSDLFormat: the byte orders of the 16-bit entries are
\* exchanged.
QnxFormatToSDLFormat_Swapped16(qnxfmt) ==
    CASE qnxfmt = "U8" -> "U8"
      [] qnxfmt = "S8" -> "S8"
      [] qnxfmt = "S16_LE" -> "S16MSB"
      [] qnxfmt = "S16_BE" -> "S16LSB"
      [] qnxfmt = "S32_LE" -> "S32LSB"
      [] qnxfmt = "S32_BE" -> "S32MSB"
      [] qnxfmt = "FLOAT_LE" -> "F32LSB"
      [] qnxfmt = "FLOAT_BE" -> "F32MSB"
      [] OTHER -> SDL_AUDIO_S16

QnxFormatToSDLFormat(qnxfmt) ==
    CASE qnxfmt = "U8" -> "U8"
      [] qnxfmt = "S8" -> "S8"
      [] qnxfmt = "S16_LE" -> "S16LSB"
      [] qnxfmt = "S16_BE" -> "S16MSB"
      [] qnxfmt = "S32_LE" -> "S32LSB"
      [] qnxfmt = "S32_BE" -> "S32MSB"
      [] qnxfmt = "FLOAT_LE" -> "F32LSB"
      [] qnxfmt = "FLOAT_BE" -> "F32MSB"
      [] OTHER -> SDL_AUDIO_S16

\* Lines 385, 410 and 419: the handle built from a card and a device number.
SdlHandle(c, d) == Or32(ToUint32(c), Shl16(ToUint32(d)))

\* Lines 200-202 of QSA_OpenDevice: the card and the device number open reads
\* out of a handle.
OpenCardno(h) == And16(h).lo
OpenDeviceno(h) == And16(Shr16(h)).lo

\* SDL_FindPhysicalAudioDeviceByHandle: the device added with handle h, if any.
FindPhysicalAudioDeviceByHandle(h) ==
    IF \E e \in added : e.sdlhandle = h THEN h ELSE NoHandle

\* SDL_min
Min(a, b) == IF a < b THEN a ELSE b

\* The card arrays snd_cards_list may fill in: n distinct card numbers.
CardArrays(n) == {c \in [1..n -> CardIds] : \A i, j \in 1..n : (i # j) => (c[i] # c[j])}

\* Mutant of NoCards: only a negative count ends the enumeration early.
NoCards_Negative(n) == n < 0

\* Line 334: no card is left to look at.
NoCards(n) == n = 0

\* Mutant of AfterClose: the handle stays open.
AfterClose_Skipped(n) == n

\* Lines 380, 406 and 415: snd_pcm_close gives up one of the n handles held.
AfterClose(n) == n - 1

\* The locals of the loops are gone once the loops are left.
ResetLoop ==
    /\ num_cards' = 0
    /\ cards' = <<>>
    /\ it' = 0
    /\ card' = NoCard
    /\ deviceno' = 0

ResetProbe ==
    /\ closeStatus' = EOK
    /\ csetup_format' = NoNative
    /\ pspec_format' = NULL

\* Lines 319-341.  hw is the count the hardware reports to the first
\* snd_cards_list call and total the value the second call returns (-1: the call
\* fails).  The first call stores its count through &alloc_num_cards, a name the
\* file does not declare: stored says whether that store reaches num_cards.
DetectStart ==
    /\ dpc = "start"
    /\ \E hw \in 0..MaxCards, stored \in BOOLEAN, allocated \in BOOLEAN, total \in -1..MaxCards :
        LET first == IF stored THEN hw ELSE 0
            n == Min(first, total)
        IN /\ countedZero' = (hw = 0)
           /\ listedZero' = (allocated /\ total = 0)
           /\ IF ~allocated
              THEN /\ dpc' = "done"
                   /\ ResetLoop
              ELSE /\ IF NoCards(n)
                      THEN dpc' = "done" /\ ResetLoop
                      ELSE IF n <= 0
                           \* `it < num_cards` fails at once
                           THEN dpc' = "playback" /\ ResetLoop
                           ELSE /\ dpc' = "device"
                                /\ num_cards' = n
                                /\ \E c \in CardArrays(n) : cards' = c /\ card' = c[1]
                                /\ it' = 0
                                /\ deviceno' = 0
    /\ UNCHANGED <<bigendian, probeVars, prefVars, openHandles, anyOpen, added, lastAdded>>
    /\ UNCHANGED qsaVars

\* `break` out of the device loop: the next card, or the end of the card loop
\* (lines 338, 398-403).
NextCard ==
    IF it + 1 < num_cards
    THEN /\ it' = it + 1
         /\ card' = cards[it + 2]
         /\ deviceno' = 0
         /\ dpc' = "device"
         /\ UNCHANGED <<num_cards, cards>>
    ELSE /\ dpc' = "playback"
         /\ ResetLoop

\* Lines 340-366 and 388-397: the name of the card is read and the device is
\* opened for playback.
DetectProbe ==
    /\ dpc = "device"
    /\ \E named \in BOOLEAN, ost \in OpenStatuses :
        /\ (deviceno >= MaxDevs) => (~named \/ ost = ENOENT)
        /\ IF ~named
           THEN NextCard /\ UNCHANGED <<anyOpen, openHandles>>
           ELSE /\ anyOpen' = TRUE
                /\ IF ost = EOK
                   THEN /\ openHandles' = openHandles + 1
                        /\ dpc' = "tentative"
                        /\ UNCHANGED <<num_cards, cards, it, card, deviceno>>
                   ELSE IF ost = ENOENT
                        THEN NextCard /\ UNCHANGED openHandles
                        ELSE /\ deviceno' = deviceno + 1
                             /\ UNCHANGED <<dpc, num_cards, cards, it, card, openHandles>>
    /\ lastAdded' = NoReport
    /\ UNCHANGED <<bigendian, countedZero, listedZero, probeVars, prefVars, added>>
    /\ UNCHANGED qsaVars

\* Lines 367-380: the setup of the tentative handle is read and the handle is
\* closed; snd_pcm_close gives the handle up whatever status it returns.
DetectSetupClose ==
    /\ dpc = "tentative"
    /\ \E f \in HardwareFormats \cup {NoNative}, cst \in CloseStatuses :
        /\ csetup_format' = f
        /\ pspec_format' = IF f = NoNative THEN NULL ELSE QnxFormatToSDLFormat(f)
        /\ closeStatus' = cst
    /\ openHandles' = AfterClose(openHandles)
    /\ dpc' = "closed"
    /\ UNCHANGED <<bigendian, countedZero, listedZero, loopVars, prefVars, anyOpen, added, lastAdded>>
    /\ UNCHANGED qsaVars

\* Lines 381-387 and the deviceno++ of line 340: the device is given to the
\* host if the close succeeded.
DetectReport ==
    /\ dpc = "closed"
    /\ IF closeStatus = EOK
       THEN /\ added' = added \cup {[card |-> card, deviceno |-> deviceno,
                                    sdlhandle |-> SdlHandle(card, deviceno)]}
            /\ lastAdded' = [sdlhandle |-> SdlHandle(card, deviceno),
                             native |-> csetup_format, format |-> pspec_format]
       ELSE UNCHANGED <<added, lastAdded>>
    /\ deviceno' = deviceno + 1
    /\ dpc' = "device"
    /\ ResetProbe
    /\ UNCHANGED <<bigendian, countedZero, listedZero, num_cards, cards, it, card, prefVars,
                   openHandles, anyOpen>>
    /\ UNCHANGED qsaVars

\* Lines 405 and 414: snd_pcm_open_preferred; when granted it names the card
\* and the device of the preferred endpoint.
OpenPreferred(at, granted, c, d) ==
    /\ dpc = at
    /\ anyOpen' = TRUE
    /\ IF granted
       THEN /\ cardno' = c
            /\ prefDeviceno' = d
            /\ openHandles' = openHandles + 1
            /\ dpc' = IF at = "playback" THEN "playback_open" ELSE "capture_open"
       ELSE /\ dpc' = IF at = "playback" THEN "capture" ELSE "done"
            /\ UNCHANGED <<cardno, prefDeviceno, openHandles>>
    /\ lastAdded' = NoReport
    /\ UNCHANGED <<bigendian, countedZero, listedZero, loopVars, probeVars, sdlhandle,
                   default_playback, default_recording, added>>
    /\ UNCHANGED qsaVars

DetectPreferred ==
    \E at \in {"playback", "capture"}, granted \in BOOLEAN :
        \E c \in IF granted THEN CardIds ELSE {NoCard},
           d \in IF granted THEN PrefDevs ELSE {NoCard} :
            OpenPreferred(at, granted, c, d)

\* Lines 406-411 and 415-420: the preferred handle is closed and the default
\* device is looked up.  The handle is built from `card`, a name that is not
\* in scope after the card loop: c is the value the name has in the build.
DetectDefault ==
    /\ dpc \in {"playback_open", "capture_open"}
    /\ openHandles' = AfterClose(openHandles)
    /\ \E c \in CardIds :
        /\ sdlhandle' = SdlHandle(c, prefDeviceno)
        /\ IF dpc = "playback_open"
           THEN /\ default_playback' = FindPhysicalAudioDeviceByHandle(SdlHandle(c, prefDeviceno))
                /\ UNCHANGED default_recording
           ELSE /\ default_recording' = FindPhysicalAudioDeviceByHandle(SdlHandle(c, prefDeviceno))
                /\ UNCHANGED default_playback
    /\ dpc' = IF dpc = "playback_open" THEN "capture" ELSE "done"
    /\ UNCHANGED <<bigendian, countedZero, listedZero, loopVars, probeVars, cardno, prefDeviceno,
                   anyOpen, added, lastAdded>>
    /\ UNCHANGED qsaVars

DetectNext ==
    \/ DetectStart
    \/ DetectProbe
    \/ DetectSetupClose
    \/ DetectReport
    \/ DetectPreferred
    \/ DetectDefault

\* QSA_DetectDevices runs once, at initialisation, before any device is opened.
DetectInit ==
    /\ InitDevice
    /\ ~recording
    /\ spec_format = "U8"
    /\ channels = 1
    /\ InitDetect
    /\ bigendian \in BOOLEAN

DetectSpec == DetectInit /\ [][DetectNext]_vars


\* ================================================================ claims
\* The last native write of the current play call was short: it reported
\* fewer bytes than it was asked for, and play has classified it.
ShortWriteClassified == op = "play" /\ pc \in {"tail", "ret"} /\ shortWrite

\* C1 (as claimed): a play call with length > 0, during which shutdown is never
\* requested and every native write accepts all the bytes it is given, performs
\* exactly one native write, returns success and has delivered exactly length bytes.
C1_PlayDelivers ==
    (pc = "top" /\ ~shutdown)
        ~> (shutdown \/ shortWrite \/ (pc = "ret" /\ ret /\ nwrites = 1 /\ accepted = buflen))

\* C2: when shutdown is already requested, or the device has no state block, at the
\* call of play, play returns success without a native write, a status query or a
\* re-prepare.
C2_EarlyReturn ==
    (op = "play" /\ (entrySd \/ hidden = NULL))
        => (pc = "ret" /\ ret /\ nwrites = 0 /\ nstatus = 0 /\ nprepare = 0)

\* C2 witness: play was called on an open device with shutdown set, and returned.
C2_Witness == op = "play" /\ entrySd /\ hidden # NULL /\ opened /\ pc = "ret" /\ ret

\* C3 (as claimed): after a loop-top check of play has observed shutdown, play starts
\* no native write.
C3_NoWriteAfterShutdownSeen == topSaw => pc \notin {"write", "check"}

\* C4: a native write of play that transfers zero bytes with the would-block error
\* while the timeout-on-wait flag is set makes play return success at once: no further
\* write, no sleep, no status query, no re-prepare.
C4_StalledShortCircuit ==
    (ShortWriteClassified /\ bw = 0 /\ errno = EAGAIN /\ timeout_on_wait)
        => (pc = "ret" /\ ret /\ nwrites = 1 /\ nsleep = 0 /\ nstatus = 0 /\ nprepare = 0)

\* C4 witness: play returned through the stalled-device case.
C4_Witness ==
    /\ ShortWriteClassified /\ bw = 0 /\ errno = EAGAIN /\ timeout_on_wait
    /\ pc = "ret" /\ lastOkWait = "timeout"

\* C5 (as claimed): after a hardware-fault write whose status query reports underrun
\* or ready, play has issued exactly one re-prepare and then exactly one retried write
\* by the time it returns.
C5_RetryAfterPrepare ==
    (op = "play" /\ pc = "ret" /\ branch = "recovered")
        => (nprepare = 1 /\ writesAfterPrepare = 1)

\* C6: in the hardware-fault branch of play a failed status query, a failed re-prepare
\* or a channel status that is neither underrun nor ready makes play return failure
\* with no further native write.
C6_FaultEscalates ==
    (op = "play" /\ pc = "ret" /\ branch \in {"statusfail", "preparefail", "otherstatus"})
        => (~ret /\ nwrites = 1 /\ writesAfterPrepare = 0)

\* C6 witness: play returned after the status query reported a running channel.
C6_Witness ==
    /\ op = "play" /\ pc = "ret" /\ branch = "otherstatus"
    /\ errno \in {EINVAL, EIO} /\ nstatus = 1 /\ nprepare = 0

\* C7 (as claimed): play returns failure only after a native write failed with an
\* error that is not would-block, or after a failed recovery.
C7_WouldBlockNeverFails ==
    (op = "play" /\ pc = "ret" /\ ~ret)
        => (shortWrite /\ errno \notin {EAGAIN, EWOULDBLOCK})

\* C8: a short native write whose error is neither would-block nor invalid-state nor
\* I/O-fault makes play return failure at once: no retry, no sleep, no status query,
\* no re-prepare.
C8_OtherErrorFatal ==
    (ShortWriteClassified /\ errno \notin {EAGAIN, EWOULDBLOCK, EINVAL, EIO})
        => (pc = "ret" /\ ~ret /\ nwrites = 1 /\ nsleep = 0 /\ nstatus = 0 /\ nprepare = 0)

\* C8 witness: play returned failure after a short write with another error.
C8_Witness ==
    /\ ShortWriteClassified /\ errno \notin {EAGAIN, EWOULDBLOCK, EINVAL, EIO}
    /\ pc = "ret" /\ bw < buflen

\* C9: waitReady returns success with the flag set after a timeout, success with the
\* flag clear when the descriptor is ready, failure with the flag unchanged when the
\* poll fails; so on an open device the flag tells whether the most recent successful
\* waitReady timed out.
C9_WaitOutcome ==
    /\ op = "wait" =>
         CASE waitResult = 0 -> ret /\ timeout_on_wait
           [] waitResult = -1 -> ~ret /\ (timeout_on_wait = flagBefore)
           [] OTHER -> ret /\ ~timeout_on_wait
    /\ opened => (timeout_on_wait = (lastOkWait = "timeout"))

\* C9 witness: a poll failure after a timeout left the flag set.
C9_Witness == op = "wait" /\ waitResult = -1 /\ ~ret /\ timeout_on_wait /\ lastOkWait = "timeout"

\* C10: in any run of consecutive close calls the native handle is released at most
\* once, the output buffer and the state block are freed at most once, and every
\* close after the first changes nothing.
C10_CloseIdempotent ==
    /\ [](handleReleases <= 1 /\ bufFrees <= 1 /\ stateFrees <= 1)
    /\ [][(closeRun >= 1 /\ closeRun' > closeRun)
            => UNCHANGED <<hidden, hidVars, resVars, handleReleases, bufFrees, stateFrees>>]_vars

\* C10 witness: a second close of a device that had been fully opened.
C10_Witness ==
    /\ closeRun >= 2 /\ hidden = NULL
    /\ handleReleases = 1 /\ bufFrees = 1 /\ stateFrees = 1
    /\ ~nativeOpen /\ ~bufLive /\ ~stateLive

\* C11: no leak across the lifecycle.  A resource is live exactly while the
\* device state refers to it (the state block through device->hidden, the native
\* handle and the output buffer through the fields of the block), at every point
\* of every run: after an open that failed at any step, after a successful
\* open, and through any waitReady and play calls.  So a close called
\* afterwards finds every live resource, and when it returns no native handle is
\* open and no output buffer or state block is allocated.
C11_NoLeak ==
    /\ stateLive <=> (hidden # NULL)
    /\ nativeOpen <=> (hidden # NULL /\ audio_handle # NULL)
    /\ bufLive <=> (hidden # NULL /\ pcm_buf # NULL)
    /\ (op = "close") => (~nativeOpen /\ ~bufLive /\ ~stateLive /\ hidden = NULL)

\* A close that followed an open which failed after the native open and before
\* the buffer allocation: it released the handle and the block, and no buffer.
C11_Witness ==
    /\ op = "close"
    /\ closeRun = 1
    /\ handleReleases = 1
    /\ bufFrees = 0
    /\ stateFrees = 1

\* C12 as stated: when open returns a configuration error (no compatible format,
\* parameters rejected, setup read failed, allocation failure), no native handle
\* is held open by the device state at the moment open returns.
C12_ClosedAtReturn ==
    (op = "open" /\ ~ret /\ openStep \in ConfigurationErrorSteps) => ~nativeOpen

\* C12 amended: when open returns such a configuration error, the state block is
\* still allocated and still holds the open native handle (and no output
\* buffer); the handle is released by the close the host calls next, which
\* releases it exactly once.
C12_HeldUntilClose ==
    /\ []((op = "open" /\ ~ret /\ openStep \in ConfigurationErrorSteps)
            => (hidden # NULL /\ stateLive /\ audio_handle # NULL /\ nativeOpen
                /\ pcm_buf = NULL /\ ~bufLive /\ ~opened))
    /\ [][(op = "open" /\ ~ret /\ openStep \in ConfigurationErrorSteps /\ op' = "close")
            => (~nativeOpen' /\ handleReleases' = 1 /\ hidden' = NULL)]_vars

\* Open has returned the error of a failed buffer allocation.
C12_Witness ==
    /\ op = "open"
    /\ ~ret
    /\ openStep = "malloc"
    /\ nativeOpen

\* C13: whenever open returns success the device state is fully populated: the
\* state block is allocated, the native handle is open, the output buffer is
\* allocated with the size computed from the accepted format, the channel count
\* and the period size the hardware reported, and filled with the silence value
\* of the accepted format, the native descriptor is non-negative, and the channel
\* has been prepared; the steps ran in the order native open, format selection,
\* parameter submission, setup read, buffer allocation, descriptor fetch,
\* prepare.
C13_FullyPopulated ==
    (op = "open" /\ ret) =>
        /\ hidden # NULL /\ stateLive
        /\ audio_handle # NULL /\ nativeOpen
        /\ pcm_buf # NULL /\ bufLive
        /\ buffer_size = HostBufferSize(spec_format, channels, sample_frames)
        /\ allocSize = buffer_size
        /\ bufFill = HostSilenceValue(spec_format)
        /\ cparams_format = NativeOf(spec_format)
        /\ cparams_format # NoNative
        /\ audio_fd >= 0
        /\ callLog = <<"calloc", "snd_pcm_open", "format", "params", "setup", "malloc",
                       "fd", "prepare">>

\* A successful open whose accepted format has a non-zero silence byte and a
\* period of more than one frame.
C13_Witness ==
    /\ op = "open"
    /\ ret
    /\ spec_format = "U8"
    /\ bufFill = 128
    /\ sample_frames = MaxFrag
    /\ allocSize = MaxFrag * channels

\* C14: open on a recording device always fails and has no effect: it allocates
\* no state block, opens no native handle, allocates no buffer, attempts none
\* of the steps of open and leaves every field of the device and of its
\* resources as it was.
C14_RecordingRejected ==
    /\ [](recording =>
            /\ hidden = NULL /\ ~stateLive /\ ~nativeOpen /\ ~bufLive /\ ~opened
            /\ (op = "open") => (~ret /\ callLog = <<>>))
    /\ [][(recording /\ OpenDevice) =>
            (~ret' /\ UNCHANGED <<devVars, hidVars, resVars, lifeKept>>)]_vars

\* Open has been called on a recording device and has returned failure.
C14_Witness ==
    /\ recording
    /\ op = "open"
    /\ ~ret

\* C15: when open gets to format negotiation, it selects the first candidate of
\* the host's list that has a native mapping in the format table, never a later
\* one: the device's accepted format is that candidate and the native format
\* submitted to the hardware is its table mapping.  If no candidate maps, open
\* fails at the negotiation and submits no parameters.
C15_FirstMappable ==
    (op = "open" /\ Len(callLog) >= StepNo("format")) =>
        IF \E i \in 1..Len(closefmts) : NativeOf(closefmts[i]) # NoNative
        THEN \E k \in 1..Len(closefmts) :
                /\ NativeOf(closefmts[k]) # NoNative
                /\ \A j \in 1..(k - 1) : NativeOf(closefmts[j]) = NoNative
                /\ spec_format = closefmts[k]
                /\ cparams_format = NativeOf(closefmts[k])
                /\ Len(callLog) >= StepNo("params")
                /\ callLog[StepNo("params")] = "params"
        ELSE /\ ~ret
             /\ openStep = "format"
             /\ cparams_format = NoNative
             /\ Len(callLog) = StepNo("format")

\* A successful open whose candidate list has a format without a mapping ahead
\* of one that maps: the accepted format is the second entry.
C15_Witness ==
    /\ op = "open"
    /\ ret
    /\ Len(closefmts) = 2
    /\ NativeOf(closefmts[1]) = NoNative
    /\ spec_format = closefmts[2]
    /\ cparams_format = "FLOAT_BE"

\* ------------------------------------------------------------ enumeration
\* C16: the format table is a bijection used identically in both directions.
\* Entry by entry the native->generic mapping of enumeration and the
\* generic->native mapping of open are inverse to each other, so each
\* composition gives back every supported format; and a device that
\* enumeration reports with a supported native format is reported with the
\* generic format for which open submits that native format again.
C16_FormatRoundTrip ==
    /\ Len(TableNative) = Len(TableFormats)
    /\ \A i \in 1..Len(TableNative) :
            /\ QnxFormatToSDLFormat(TableNative[i]) = TableFormats[i]
            /\ NativeOf(TableFormats[i]) = TableNative[i]
            /\ NativeOf(QnxFormatToSDLFormat(TableNative[i])) = TableNative[i]
            /\ QnxFormatToSDLFormat(NativeOf(TableFormats[i])) = TableFormats[i]
    /\ \A i, j \in 1..Len(TableNative) :
            (i # j) => (TableNative[i] # TableNative[j] /\ TableFormats[i] # TableFormats[j])
    /\ (\E i \in 1..Len(TableNative) : lastAdded.native = TableNative[i]) =>
            /\ NativeOf(lastAdded.format) = lastAdded.native
            /\ Negotiate(<<lastAdded.format>>).native = lastAdded.native

\* Enumeration has reported a device whose hardware format is big-endian float.
C16_Witness ==
    /\ lastAdded.native = "FLOAT_BE"
    /\ lastAdded.format = "F32MSB"
    /\ lastAdded.sdlhandle # NoHandle

\* C17: a format outside the format table is rejected, not approximated, in
\* both directions.  A device whose hardware format is not one of the eight
\* native formats of the table is never reported by enumeration with a generic
\* format of the table, and no generic format without a table entry has a
\* native format that open would submit.
C17_OutsideTableRejected ==
    /\ (/\ lastAdded.sdlhandle # NoHandle
        /\ lastAdded.native # NoNative
        /\ \A i \in 1..Len(TableNative) : lastAdded.native # TableNative[i])
            => (\A i \in 1..Len(TableFormats) : lastAdded.format # TableFormats[i])
    /\ \A g \in GenericFormats :
            (\A i \in 1..Len(TableFormats) : g # TableFormats[i]) => (NativeOf(g) = NoNative)

\* C18: enumeration never leaves devices open.  It holds at most one native
\* handle at a time, the step that follows a granted open closes the handle,
\* none is held when detectDevices has returned, and a device is given to the
\* host registry only by the step after its tentative handle was closed.
C18_NoHandleLeftOpen ==
    /\ [](openHandles \in {0, 1})
    /\ []((dpc = "done") => (openHandles = 0))
    /\ []((openHandles = 1) <=> (dpc \in {"tentative", "playback_open", "capture_open"}))
    /\ [][(openHandles = 1) => (openHandles' = 0)]_vars
    /\ [][(added' # added) => (dpc = "closed" /\ openHandles = 0 /\ openHandles' = 0)]_vars

\* detectDevices has returned after reporting a device and after both
\* preferred endpoints were granted.
C18_Witness ==
    /\ dpc = "done"
    /\ added # {}
    /\ default_playback # NoHandle
    /\ default_recording # NoHandle
    /\ openHandles = 0

\* C19: when the hardware lists zero cards, detectDevices returns at once: it
\* gives no device to the host registry, calls no native open function (neither
\* the per-device open nor the preferred-endpoint open), names no default
\* device and holds no handle.  It has no error to return.
C19_ZeroCards ==
    listedZero =>
        /\ dpc = "done"
        /\ added = {}
        /\ lastAdded = NoReport
        /\ ~anyOpen
        /\ openHandles = 0
        /\ default_playback = NoHandle
        /\ default_recording = NoHandle

\* The hardware reported zero cards to both snd_cards_list calls and
\* detectDevices has returned.
C19_Witness ==
    /\ dpc = "done"
    /\ countedZero
    /\ listedZero
    /\ ~anyOpen

\* C20: device identifier round trip.  For card and device numbers in
\* 0..0xFFFF the handle enumeration builds is decoded by open back to the same
\* pair, distinct pairs give distinct handles, and the handle of a
\* default-endpoint lookup is built, with the same encoding, from the card and
\* the device number of the preferred endpoint itself.
C20_HandleRoundTrip ==
    /\ \A e \in added :
            /\ OpenCardno(e.sdlhandle) = e.card
            /\ OpenDeviceno(e.sdlhandle) = e.deviceno
    /\ \A e1, e2 \in added : (e1.sdlhandle = e2.sdlhandle) => (e1 = e2)
    /\ \A c \in CardIds, d \in PrefDevs :
            /\ OpenCardno(SdlHandle(c, d)) = c
            /\ OpenDeviceno(SdlHandle(c, d)) = d
    /\ (dpc \in {"capture", "done"} /\ sdlhandle # NoHandle) =>
            (sdlhandle = SdlHandle(cardno, prefDeviceno))

C22_PlayReturns ==
    (op = "play" /\ pc \in {"top", "write", "check", "tail"} /\ ~shutdown /\ ~timeout_on_wait)
        ~> (shutdown \/ (op = "play" /\ pc = "ret"))

====
